---- MODULE Spec2Model ----
(***************************************************************************)
(* The storefront REST backend (Express routes over a MongoDB datastore):  *)
(* the four collections, the bearer-token and admin role gates, and one    *)
(* action per route handler.  Each handler is an operator from the         *)
(* datastore and the request to the reply and the datastore it leaves; the *)
(* action applies it to the state.  A handler that awaits two datastore    *)
(* calls whose interleaving matters (user sync, wishlist add: findOne,     *)
(* then insertOne) is two actions, the request waiting in `inflight`       *)
(* between them.  The startup (connectDB with its retry, then the routes   *)
(* and listen) has its own actions; Init is the server listening, InitBoot *)
(* the process as it starts.                                               *)
(***************************************************************************)
EXTENDS Integers, Sequences, FiniteSets, Bags, TLC

\* ObjectIds the datastore hands out to inserted documents: 1..MaxId.
MaxId == 2
\* Requests that may wait between their lookup and their insert.
MaxInFlight == 2
\* Ticks the clock advances while the server runs.
MaxTicks == 13
\* Failed connection attempts that are counted; further ones happen uncounted.
MaxAttempts == 3

---------------------------------------------------------------------------
\* Values

\* A JSON field that the request does not carry (JavaScript undefined).
Undefined == "undefined"

\* JavaScript values a price field can hold, by type tag.
Num(n) == [t |-> "number", v |-> n]
NumStr(n) == [t |-> "numeric-string", v |-> n]
BadStr == [t |-> "text", v |-> 0]
NoPrice == [t |-> "undefined", v |-> 0]
NullPrice == [t |-> "null", v |-> 0]
NaN == [t |-> "NaN", v |-> 0]

\* String.parseFloat: a number stays, a numeric string is read, all else NaN.
parseFloat(x) ==
    IF x.t \in {"number", "numeric-string"} THEN Num(x.v) ELSE NaN

\* JavaScript falsiness of a price value: undefined, NaN and 0.
FalsyPrice(x) == x.t \in {"undefined", "NaN"} \/ (x.t = "number" /\ x.v = 0)

\* JavaScript falsiness of a string field: undefined and the empty string.
FalsyStr(s) == s = Undefined \/ s = ""

\* Strings that arrive in path parameters and request bodies: Hex(n) is the
\* 24-character hexadecimal spelling of ObjectId n, Plain(k) a string that is
\* not in that format.  Oid(n) is the BSON ObjectId itself, a different type:
\* the datastore's equality never matches a string against an ObjectId.
Hex(n) == [t |-> "hex-string", v |-> n]
Plain(k) == [t |-> "string", v |-> k]
Oid(n) == [t |-> "ObjectId", v |-> n]

\* new ObjectId(s) accepts the hexadecimal format and throws on anything else.
ObjectIdThrows(s) == s.t # "hex-string"
ObjectId(s) == Oid(s.v)

Ids == 1..MaxId
PathIds == {Hex(n) : n \in Ids} \cup {Plain(0)}
ProductRefs == {Hex(1), Plain(0)}

AdminEmail == "root@shop"
Emails == {AdminEmail, "bob@shop"}
\* A caller whose bearer token is missing or invalid.
Anonymous == "anonymous"
Callers == Emails \cup {Anonymous}

Names == {"boot", Undefined}
Categories == {"Shoes", Undefined}
PriceInputs == {NoPrice, NullPrice, Num(0), Num(5), NumStr(7), BadStr}
StatusInputs == {"shipped", "bogus"}
TotalInputs == {100, 50}

\* Time (new Date()) in ticks.  A calendar month is TicksPerMonth ticks long,
\* so that two instants of one month can lie on either side of a third; the
\* server starts in August of year 0.
TicksPerMonth == 2
FirstTick == 7 * TicksPerMonth
LastTick == FirstTick + MaxTicks
NoteInputs == {Undefined, "gift"}

\* Which datastore call of the request fails: none, the role lookup of the
\* admin gate, or the handler's own query.
Faults == {"none", "gate", "query"}

\* The Express major version of the build (package.json is not part of the
\* sources): it decides what becomes of a rejection no handler catches.
Express == {4, 5}

---------------------------------------------------------------------------
\* State

VARIABLES
    users,      \* collection users: documents [_id, email, role]
    products,   \* collection products: documents [_id, name, price, category]
    orders,     \* collection orders: [_id, userEmail, total, status, createdAt]
    wishlist,   \* collection wishlist: documents [_id, userEmail, productId, notes]
    nextId,     \* the next ObjectId the datastore generates
    inflight,   \* bag of requests between their findOne and their insertOne
    now,        \* the clock, in ticks
    pc,         \* where startServer is: "connect", "check", "delay", "listening"
    dbHandle,   \* app.locals.db is set
    reachable,  \* the datastore answers
    failures    \* failed connection attempts so far, counted up to MaxAttempts

vars ==
    <<users, products, orders, wishlist, nextId, inflight, now,
      pc, dbHandle, reachable, failures>>

\* The data of the datastore and the requests, and the state of the startup.
dataVars == <<users, products, orders, wishlist, nextId, inflight, now>>
serverVars == <<pc, dbHandle, reachable, failures>>

\* The datastore as one value, as the handlers read and return it.
DB ==
    [users |-> users, products |-> products, orders |-> orders,
     wishlist |-> wishlist, nextId |-> nextId]

\* What the datastore holds when the server starts: the admin's user record.
InitData ==
    /\ users = {[_id |-> 0, email |-> AdminEmail, role |-> "admin"]}
    /\ products = {}
    /\ orders = {}
    /\ wishlist = {}
    /\ nextId = 1
    /\ inflight = EmptyBag
    /\ now = FirstTick

\* The server as startServer leaves it: connected at the first attempt, the
\* routes registered, listening.
Init ==
    /\ InitData
    /\ pc = "listening"
    /\ dbHandle = TRUE
    /\ reachable = TRUE
    /\ failures = 0

\* The process as it starts: startServer() calls connectDB(), the datastore
\* reachable or not.
InitBoot ==
    /\ InitData
    /\ pc = "connect"
    /\ dbHandle = FALSE
    /\ reachable \in BOOLEAN
    /\ failures = 0

---------------------------------------------------------------------------
\* Helpers shared by the handlers

Message(m) == [message |-> m]

\* res.status(status).json(body), sent by the route's own code; db is the
\* datastore as the request leaves it.
Reply(status, body, db) ==
    [status |-> status, body |-> body, sentBy |-> "handler", db |-> db]

\* A rejection that no try/catch of the application encloses.  Express 4 does
\* not watch the promise an async middleware returns: nothing is sent and the
\* request hangs.  Express 5 hands the rejection to its final handler, which
\* answers 500 with its own page.
Unhandled(x, db) ==
    IF x = 4
    THEN [status |-> 0, body |-> Message("none"), sentBy |-> "nobody", db |-> db]
    ELSE [status |-> 500, body |-> Message("none"), sentBy |-> "transport", db |-> db]

\* collection.findOne / updateOne / deleteOne act on the first match in
\* natural (insertion) order: the match with the least _id.
First(found) == CHOOSE d \in found : \A e \in found : d._id <= e._id

\* insertOne: the document gets the next ObjectId.
Inserted(db) == [db EXCEPT !.nextId = @ + 1]

\* middleware/auth.js: the token is verified and req.user.email set, or 401.
Authenticated(caller) == caller \in Emails

authMiddleware(db, caller, next) ==
    IF ~Authenticated(caller) THEN Reply(401, Message("Unauthorized"), db) ELSE next

\* user = findOne({ email }); !user || user.role !== 'admin'
NotAdmin(db, email) ==
    LET found == {u \in db.users : u.email = email}
    IN found = {} \/ First(found).role # "admin"

\* Mutant: the gate lets every authenticated caller through.
adminMiddleware_NoRoleCheck(db, caller, f, x, next) ==
    IF f = "gate" THEN Unhandled(x, db) ELSE next

\* middleware/admin.js: 403 for a non-admin; a failed lookup rejects, uncaught.
adminMiddleware(db, caller, f, x, next) ==
    IF f = "gate" THEN Unhandled(x, db)
    ELSE IF NotAdmin(db, caller) THEN Reply(403, Message("Admins only"), db)
    ELSE next

\* The check the order routes repeat inside their own try block.
adminCheck(db, caller, f, failed, next) ==
    IF f = "gate" THEN Reply(500, Message(failed), db)
    ELSE IF NotAdmin(db, caller) THEN Reply(403, Message("Access denied"), db)
    ELSE next

\* The action of a handler: the datastore becomes what the handler leaves.
Apply(r) ==
    /\ pc = "listening"
    /\ r.db.nextId <= MaxId + 1
    /\ users' = r.db.users
    /\ products' = r.db.products
    /\ orders' = r.db.orders
    /\ wishlist' = r.db.wishlist
    /\ nextId' = r.db.nextId
    /\ now' = now
    /\ UNCHANGED serverVars

\* Time passes between two requests.
Tick ==
    /\ now < LastTick
    /\ now' = now + 1
    /\ UNCHANGED <<users, products, orders, wishlist, nextId, inflight>>
    /\ UNCHANGED serverVars

---------------------------------------------------------------------------
\* Startup: startServer awaits connectDB, then registers the routes and
\* listens.

\* Mutant: a failed attempt ends the startup.
AttemptFailed_GivesUp ==
    /\ pc' = "failed"
    /\ failures' = IF failures < MaxAttempts THEN failures + 1 ELSE failures
    /\ UNCHANGED <<dbHandle, reachable>>
    /\ UNCHANGED dataVars

\* catch (err): the failure is logged and the retry timer is set.
AttemptFailed ==
    /\ pc' = "delay"
    /\ failures' = IF failures < MaxAttempts THEN failures + 1 ELSE failures
    /\ UNCHANGED <<dbHandle, reachable>>
    /\ UNCHANGED dataVars

\* await client.connect()
Connect ==
    /\ pc = "connect"
    /\ IF reachable
       THEN pc' = "check" /\ UNCHANGED <<dbHandle, reachable, failures>>
                         /\ UNCHANGED dataVars
       ELSE AttemptFailed

\* await listCollections (and createCollection('wishlist') when it is not
\* there: an empty collection, which is what `wishlist` holds); then return db
\* to startServer, which sets app.locals.db, registers the routes and listens.
CheckCollections ==
    /\ pc = "check"
    /\ IF reachable
       THEN /\ pc' = "listening"
            /\ dbHandle' = TRUE
            /\ UNCHANGED <<reachable, failures>>
            /\ UNCHANGED dataVars
       ELSE AttemptFailed

\* await new Promise(res => setTimeout(res, 3000)); return connectDB()
RetryDelay ==
    /\ pc = "delay"
    /\ pc' = "connect"
    /\ UNCHANGED <<dbHandle, reachable, failures>>
    /\ UNCHANGED dataVars

\* The datastore goes down or comes up while the server starts.  (Once the
\* server listens, a datastore that is down shows as the faults of requests.)
Flap ==
    /\ pc # "listening"
    /\ reachable' = ~reachable
    /\ UNCHANGED <<pc, dbHandle, failures>>
    /\ UNCHANGED dataVars

---------------------------------------------------------------------------
\* GET /

root(db) == Reply(200, Message("Server Running with Stable MongoDB Connection!"), db)

Root == Apply(root(DB)) /\ UNCHANGED inflight

---------------------------------------------------------------------------
\* POST /api/users/sync: findOne, then insertOne when nothing was found.

\* A request waiting between its two datastore calls.
Waiting(route, email, productId) ==
    [route |-> route, email |-> email, productId |-> productId]

\* Mutant: the lookup matches on nothing.
usersSyncFound_Nothing(db, email) == {}

usersSyncFound(db, email) == {u \in db.users : u.email = email}

\* let user = await findOne({ email }): answered at once when it exists.
usersSyncLookup(db, email, f) ==
    IF f = "query" THEN Reply(500, Message("User sync failed"), db)
    ELSE Reply(200, First(usersSyncFound(db, email)), db)

\* Mutant: the new user is created as an admin.
usersSyncInsert_AsAdmin(db, email, f) ==
    LET user == [_id |-> db.nextId, email |-> email, role |-> "admin"]
    IN  IF f = "query" THEN Reply(500, Message("User sync failed"), db)
        ELSE Reply(200, user, Inserted([db EXCEPT !.users = @ \cup {user}]))

\* if (!user) { user = { email, role: "user" }; await insertOne(user) }
usersSyncInsert(db, email, f) ==
    LET user == [_id |-> db.nextId, email |-> email, role |-> "user"]
    IN  IF f = "query" THEN Reply(500, Message("User sync failed"), db)
        ELSE Reply(200, user, Inserted([db EXCEPT !.users = @ \cup {user}]))

\* The whole handler, when no other request runs between its two calls.
usersSync(db, email, f) ==
    IF f # "query" /\ usersSyncFound(db, email) = {}
    THEN usersSyncInsert(db, email, f)
    ELSE usersSyncLookup(db, email, f)

UsersSyncLookup(email, f) ==
    IF f # "query" /\ usersSyncFound(DB, email) = {}
    THEN /\ pc = "listening"
         /\ BagCardinality(inflight) < MaxInFlight
         /\ inflight' = inflight (+) SetToBag({Waiting("usersSync", email, Plain(0))})
         /\ UNCHANGED <<users, products, orders, wishlist, nextId, now>>
         /\ UNCHANGED serverVars
    ELSE /\ Apply(usersSyncLookup(DB, email, f))
         /\ UNCHANGED inflight

UsersSyncInsert(email, f) ==
    LET r == Waiting("usersSync", email, Plain(0))
    IN  /\ BagIn(r, inflight)
        /\ inflight' = inflight (-) SetToBag({r})
        /\ Apply(usersSyncInsert(DB, email, f))

---------------------------------------------------------------------------
\* Products

ById(coll, id) == {d \in coll : Oid(d._id) = ObjectId(id)}

\* GET /api/products?category=
productsList(db, category, f) ==
    LET query(p) == (category # Undefined /\ category # "All") => p.category = category
    IN  IF f = "query" THEN Reply(500, Message("Failed to fetch products"), db)
        ELSE Reply(200, {p \in db.products : query(p)}, db)

\* GET /api/products/:id
productGet(db, id, f) ==
    IF ObjectIdThrows(id) \/ f = "query"
    THEN Reply(500, Message("Failed to fetch product"), db)
    ELSE IF ById(db.products, id) = {}
    THEN Reply(404, Message("Product not found"), db)
    ELSE Reply(200, First(ById(db.products, id)), db)

\* The required-field check of product create: any falsy field is "missing".
MissingRequired(productData) ==
    \/ FalsyStr(productData.name)
    \/ FalsyPrice(productData.price)
    \/ FalsyStr(productData.category)

\* POST /api/products
productCreate(db, caller, body, f, x) ==
    LET productData == [name |-> body.name, price |-> parseFloat(body.price),
                        category |-> body.category]
        doc == [_id |-> db.nextId, name |-> productData.name,
                price |-> productData.price, category |-> productData.category]
    IN  authMiddleware(db, caller, adminMiddleware(db, caller, f, x,
            IF MissingRequired(productData)
            THEN Reply(400, Message("Missing required fields: name, price, category"), db)
            ELSE IF f = "query"
            THEN Reply(500, Message("Failed to create product"), db)
            ELSE Reply(201, doc, Inserted([db EXCEPT !.products = @ \cup {doc}]))))

\* $set of the fields the body carries; price is parsed when present.
SetFields(p, body) ==
    [p EXCEPT !.name = IF body.name = Undefined THEN @ ELSE body.name,
              !.price = IF body.price.t = "undefined" THEN @ ELSE parseFloat(body.price)]

\* PUT /api/products/:id
productUpdate(db, caller, id, body, f, x) ==
    authMiddleware(db, caller, adminMiddleware(db, caller, f, x,
        IF ObjectIdThrows(id) \/ f = "query"
        THEN Reply(500, Message("Failed to update product"), db)
        ELSE IF ById(db.products, id) = {}
        THEN Reply(404, Message("Product not found"), db)
        ELSE LET p == First(ById(db.products, id))
             IN Reply(200, Message("Product updated successfully"),
                      [db EXCEPT !.products = (@ \ {p}) \cup {SetFields(p, body)}])))

\* DELETE /api/products/:id: the catch answers 400.
productDelete(db, caller, id, f, x) ==
    authMiddleware(db, caller, adminMiddleware(db, caller, f, x,
        IF ObjectIdThrows(id) \/ f = "query"
        THEN Reply(400, Message("Failed to delete product"), db)
        ELSE IF ById(db.products, id) = {}
        THEN Reply(404, Message("Product not found"), db)
        ELSE Reply(200, Message("Product deleted successfully"),
                   [db EXCEPT !.products = @ \ {First(ById(db.products, id))}])))

ProductsList(category, f) == Apply(productsList(DB, category, f)) /\ UNCHANGED inflight
ProductGet(id, f) == Apply(productGet(DB, id, f)) /\ UNCHANGED inflight
ProductCreate(caller, body, f, x) ==
    Apply(productCreate(DB, caller, body, f, x)) /\ UNCHANGED inflight
ProductUpdate(caller, id, body, f, x) ==
    Apply(productUpdate(DB, caller, id, body, f, x)) /\ UNCHANGED inflight
ProductDelete(caller, id, f, x) ==
    Apply(productDelete(DB, caller, id, f, x)) /\ UNCHANGED inflight

---------------------------------------------------------------------------
\* Orders

\* Mutant: the body's fields are spread over the stamped ones.
orderDocument_BodyWins(body, email, id) ==
    [_id |-> id, total |-> body.total, status |-> body.status, createdAt |-> now,
     userEmail |-> IF body.userEmail = Undefined THEN email ELSE body.userEmail]

\* { ...data, items, total, userEmail: req.user.email, createdAt: new Date() }:
\* the body's other fields (a status, an owner of its own) come first, the
\* caller's email and the creation time are written over them.
orderDocument(body, email, id) ==
    LET data == [userEmail |-> body.userEmail, status |-> body.status]
        order == data @@ [_id |-> id, total |-> body.total]
    IN  [order EXCEPT !.userEmail = email] @@ [createdAt |-> now]

\* POST /api/orders
orderCreate(db, caller, body, f) ==
    LET order == orderDocument(body, caller, db.nextId)
    IN  authMiddleware(db, caller,
            IF f = "query" THEN Reply(500, Message("Order failed"), db)
            ELSE Reply(201, [id |-> order._id],
                       Inserted([db EXCEPT !.orders = @ \cup {order}])))

\* GET /api/orders
ordersList(db, caller, f) ==
    authMiddleware(db, caller, adminCheck(db, caller, f, "Failed to fetch orders",
        IF f = "query" THEN Reply(500, Message("Failed to fetch orders"), db)
        ELSE Reply(200, db.orders, db)))

RECURSIVE SumTotals(_)
\* $group { total: { $sum: "$total" } }
SumTotals(S) ==
    IF S = {} THEN 0
    ELSE LET o == CHOOSE y \in S : TRUE IN o.total + SumTotals(S \ {o})

StatusEnum == {"pending", "confirmed", "processing", "shipped", "delivered", "cancelled"}
StatusList == <<"pending", "confirmed", "processing", "shipped", "delivered", "cancelled">>

\* Mutant: the groups the aggregation found are returned as they are.
statusDistribution_GroupsOnly(os) ==
    LET present == SelectSeq(StatusList, LAMBDA st : \E o \in os : o.status = st)
    IN  [i \in 1..Len(present) |->
            [status |-> present[i],
             count |-> Cardinality({o \in os : o.status = present[i]})]]

\* Mutant: an order whose status is none of the list counts as pending.
statusDistribution_DefaultPending(os) ==
    [i \in 1..Len(StatusList) |->
        [status |-> StatusList[i],
         count |-> Cardinality({o \in os :
                      \/ o.status = StatusList[i]
                      \/ (i = 1 /\ o.status \notin StatusEnum)})]]

\* $group by "$status", then the fixed list mapped over the groups: a status
\* of the list without a group counts 0, a group outside the list is dropped.
statusDistribution(os) ==
    [i \in 1..Len(StatusList) |->
        [status |-> StatusList[i],
         count |-> Cardinality({o \in os : o.status = StatusList[i]})]]

\* The calendar month of an instant: { $year, $month }.
MonthsPerYear == 12
MonthOf(t) ==
    [year |-> (t \div TicksPerMonth) \div MonthsPerYear,
     month |-> ((t \div TicksPerMonth) % MonthsPerYear) + 1]

\* sixMonthsAgo.setMonth(getMonth() - 6): the same day and time of day, six
\* calendar months earlier.
MonthsBack == 6
sixMonthsAgo == now - MonthsBack * TicksPerMonth

\* $sort { "_id.year": 1, "_id.month": 1 }
Earlier(a, b) == a.year < b.year \/ (a.year = b.year /\ a.month <= b.month)

RECURSIVE SortMonths(_)
SortMonths(ms) ==
    IF ms = {} THEN << >>
    ELSE LET m == CHOOSE a \in ms : \A b \in ms : Earlier(a, b)
         IN <<m>> \o SortMonths(ms \ {m})

\* $match createdAt >= sixMonthsAgo, $group by year and month with the count
\* and the summed total, $sort, then each group as { month, count, revenue }.
monthlyStats(os) ==
    LET recent == {o \in os : o.createdAt >= sixMonthsAgo}
        inMonth(m) == {o \in recent : MonthOf(o.createdAt) = m}
        sorted == SortMonths({MonthOf(o.createdAt) : o \in recent})
    IN  [i \in 1..Len(sorted) |->
            [month |-> sorted[i],
             count |-> Cardinality(inMonth(sorted[i])),
             revenue |-> SumTotals(inMonth(sorted[i]))]]

\* GET /api/orders/stats: the count, the summed revenue, the six-status
\* distribution and the monthly breakdown.
orderStats(db, caller, f) ==
    authMiddleware(db, caller,
        adminCheck(db, caller, f, "Failed to fetch order statistics",
            IF f = "query" THEN Reply(500, Message("Failed to fetch order statistics"), db)
            ELSE Reply(200,
                       [totalOrders |-> Cardinality(db.orders),
                        totalRevenue |-> SumTotals(db.orders),
                        ordersByStatus |-> statusDistribution(db.orders),
                        monthlyStats |-> monthlyStats(db.orders)],
                       db)))

\* PUT /api/orders/:id: any status string is stored as it comes.
orderUpdate(db, caller, id, status, f) ==
    authMiddleware(db, caller, adminCheck(db, caller, f, "Failed to update order",
        IF ObjectIdThrows(id) \/ f = "query"
        THEN Reply(500, Message("Failed to update order"), db)
        ELSE IF ById(db.orders, id) = {}
        THEN Reply(404, Message("Order not found"), db)
        ELSE LET o == First(ById(db.orders, id))
             IN Reply(200, Message("Order status updated successfully"),
                      [db EXCEPT !.orders = (@ \ {o}) \cup {[o EXCEPT !.status = status]}])))

\* DELETE /api/orders/:id
orderDelete(db, caller, id, f) ==
    authMiddleware(db, caller, adminCheck(db, caller, f, "Failed to delete order",
        IF ObjectIdThrows(id) \/ f = "query"
        THEN Reply(500, Message("Failed to delete order"), db)
        ELSE IF ById(db.orders, id) = {}
        THEN Reply(404, Message("Order not found"), db)
        ELSE Reply(200, Message("Order deleted successfully"),
                   [db EXCEPT !.orders = @ \ {First(ById(db.orders, id))}])))

\* GET /api/orders/:id: behind the token check only.
orderGet(db, caller, id, f) ==
    authMiddleware(db, caller,
        IF ObjectIdThrows(id) \/ f = "query"
        THEN Reply(500, Message("Failed to fetch order"), db)
        ELSE IF ById(db.orders, id) = {}
        THEN Reply(404, Message("Order not found"), db)
        ELSE Reply(200, First(ById(db.orders, id)), db))

OrderCreate(caller, body, f) == Apply(orderCreate(DB, caller, body, f)) /\ UNCHANGED inflight
OrdersList(caller, f) == Apply(ordersList(DB, caller, f)) /\ UNCHANGED inflight
OrderStats(caller, f) == Apply(orderStats(DB, caller, f)) /\ UNCHANGED inflight
OrderUpdate(caller, id, status, f) ==
    Apply(orderUpdate(DB, caller, id, status, f)) /\ UNCHANGED inflight
OrderDelete(caller, id, f) == Apply(orderDelete(DB, caller, id, f)) /\ UNCHANGED inflight
OrderGet(caller, id, f) == Apply(orderGet(DB, caller, id, f)) /\ UNCHANGED inflight

---------------------------------------------------------------------------
\* Wishlist

\* try { productId = new ObjectId(s) } catch { productId = s }
ObjectIdOrString(s) == IF ObjectIdThrows(s) THEN s ELSE ObjectId(s)

\* GET /api/wishlist/check/:productId
wishlistCheck(db, caller, productId, f) ==
    LET found == {w \in db.wishlist : /\ w.userEmail = caller
                                      /\ w.productId = ObjectIdOrString(productId)}
    IN  authMiddleware(db, caller,
            IF f = "query" THEN Reply(500, Message("Failed to check wishlist"), db)
            ELSE IF found = {} THEN Reply(200, [exists |-> FALSE, itemId |-> 0], db)
            ELSE Reply(200, [exists |-> TRUE, itemId |-> First(found)._id], db))

\* GET /api/wishlist: the caller's entries, each with its product or null
\* (the empty set stands for null).
wishlistList(db, caller, f) ==
    LET enrich(w) ==
            [item |-> w,
             product |-> {p \in db.products : Oid(p._id) = ObjectIdOrString(w.productId)}]
    IN  authMiddleware(db, caller,
            IF f = "query" THEN Reply(500, Message("Failed to fetch wishlist"), db)
            ELSE Reply(200, {enrich(w) : w \in {y \in db.wishlist : y.userEmail = caller}},
                       db))

\* POST /api/wishlist: findOne on (owner, productId as the body gives it) ...
wishlistAddExisting(db, caller, productId) ==
    {w \in db.wishlist : w.userEmail = caller /\ w.productId = productId}

\* Mutant: the duplicate check is skipped.
wishlistAddGoesOn_NoDuplicateCheck(db, caller, productId, f) ==
    Authenticated(caller) /\ f # "query"

\* The request goes on to insertOne only when the lookup found nothing.
wishlistAddGoesOn(db, caller, productId, f) ==
    /\ Authenticated(caller)
    /\ f # "query"
    /\ wishlistAddExisting(db, caller, productId) = {}

wishlistAddLookup(db, caller, productId, f) ==
    authMiddleware(db, caller,
        IF f = "query" THEN Reply(500, Message("Failed to add to wishlist"), db)
        ELSE Reply(400, Message("Already in wishlist"), db))

\* Mutant: the insert is refused when the pair is there by now, as under a
\* unique index on (userEmail, productId).
wishlistAddInsert_Unique(db, caller, productId, f) ==
    LET wishlistItem == [_id |-> db.nextId, userEmail |-> caller,
                         productId |-> productId, notes |-> ""]
    IN  IF f = "query" \/ wishlistAddExisting(db, caller, productId) # {}
        THEN Reply(500, Message("Failed to add to wishlist"), db)
        ELSE Reply(201, wishlistItem,
                   Inserted([db EXCEPT !.wishlist = @ \cup {wishlistItem}]))

\* ... then insertOne of the new entry.
wishlistAddInsert(db, caller, productId, f) ==
    LET wishlistItem == [_id |-> db.nextId, userEmail |-> caller,
                         productId |-> productId, notes |-> ""]
    IN  IF f = "query" THEN Reply(500, Message("Failed to add to wishlist"), db)
        ELSE Reply(201, wishlistItem,
                   Inserted([db EXCEPT !.wishlist = @ \cup {wishlistItem}]))

\* The whole handler, when no other request runs between its two calls.
wishlistAdd(db, caller, productId, f) ==
    IF wishlistAddGoesOn(db, caller, productId, f)
    THEN wishlistAddInsert(db, caller, productId, f)
    ELSE wishlistAddLookup(db, caller, productId, f)

\* Mutant: the by-id query is not scoped to the caller.
OwnedById_AnyOwner(db, caller, id) ==
    {w \in db.wishlist : Oid(w._id) = ObjectIdOrString(id)}

\* The query of the by-id routes: { _id: ObjectId(id) or the raw string,
\* userEmail }.  A stored _id is always an ObjectId.
OwnedById(db, caller, id) ==
    {w \in db.wishlist : Oid(w._id) = ObjectIdOrString(id) /\ w.userEmail = caller}

\* DELETE /api/wishlist/:id
wishlistDelete(db, caller, id, f) ==
    authMiddleware(db, caller,
        IF f = "query" THEN Reply(500, Message("Failed to remove from wishlist"), db)
        ELSE IF OwnedById(db, caller, id) = {}
        THEN Reply(404, Message("Item not found in wishlist"), db)
        ELSE Reply(200, Message("Removed from wishlist"),
                   [db EXCEPT !.wishlist = @ \ {First(OwnedById(db, caller, id))}]))

\* PUT /api/wishlist/:id: notes || ""
wishlistUpdate(db, caller, id, notes, f) ==
    authMiddleware(db, caller,
        IF f = "query" THEN Reply(500, Message("Failed to update"), db)
        ELSE IF OwnedById(db, caller, id) = {}
        THEN Reply(404, Message("Item not found"), db)
        ELSE LET w == First(OwnedById(db, caller, id))
             IN Reply(200, Message("Updated"),
                      [db EXCEPT !.wishlist = (@ \ {w}) \cup
                          {[w EXCEPT !.notes = IF FalsyStr(notes) THEN "" ELSE notes]}]))

\* DELETE /api/wishlist/by-product/:productId: the raw path string is matched.
wishlistDeleteByProduct(db, caller, productId, f) ==
    LET found == {w \in db.wishlist : w.userEmail = caller /\ w.productId = productId}
    IN  authMiddleware(db, caller,
            IF f = "query" THEN Reply(500, Message("Failed to remove from wishlist"), db)
            ELSE IF found = {} THEN Reply(404, Message("Item not found in wishlist"), db)
            ELSE Reply(200, Message("Removed from wishlist"),
                       [db EXCEPT !.wishlist = @ \ {First(found)}]))

WishlistCheck(caller, productId, f) ==
    Apply(wishlistCheck(DB, caller, productId, f)) /\ UNCHANGED inflight
WishlistList(caller, f) == Apply(wishlistList(DB, caller, f)) /\ UNCHANGED inflight
WishlistAddLookup(caller, productId, f) ==
    IF wishlistAddGoesOn(DB, caller, productId, f)
    THEN /\ pc = "listening"
         /\ BagCardinality(inflight) < MaxInFlight
         /\ inflight' = inflight (+) SetToBag({Waiting("wishlistAdd", caller, productId)})
         /\ UNCHANGED <<users, products, orders, wishlist, nextId, now>>
         /\ UNCHANGED serverVars
    ELSE /\ Apply(wishlistAddLookup(DB, caller, productId, f))
         /\ UNCHANGED inflight
WishlistAddInsert(caller, productId, f) ==
    LET r == Waiting("wishlistAdd", caller, productId)
    IN  /\ BagIn(r, inflight)
        /\ inflight' = inflight (-) SetToBag({r})
        /\ Apply(wishlistAddInsert(DB, caller, productId, f))
WishlistDelete(caller, id, f) ==
    Apply(wishlistDelete(DB, caller, id, f)) /\ UNCHANGED inflight
WishlistUpdate(caller, id, notes, f) ==
    Apply(wishlistUpdate(DB, caller, id, notes, f)) /\ UNCHANGED inflight
WishlistDeleteByProduct(caller, productId, f) ==
    Apply(wishlistDeleteByProduct(DB, caller, productId, f)) /\ UNCHANGED inflight

---------------------------------------------------------------------------
\* The server: any request at any time, any datastore call may fail.

ProductBodies == [name : Names, price : PriceInputs, category : Categories]
UpdateBodies ==
    {[name |-> Undefined, price |-> p] : p \in PriceInputs}
        \cup {[name |-> "clog", price |-> NoPrice]}
OrderBodies ==
    [total : {100}, userEmail : {Undefined, "mallory@shop"},
     status : {Undefined, "pending"}]
\* Order bodies that differ in their totals.
StatsBodies == [total : TotalInputs, userEmail : {Undefined}, status : {Undefined}]

UserRequests ==
    \/ \E e \in Emails, f \in Faults : UsersSyncLookup(e, f)
    \/ \E e \in Emails, f \in Faults : UsersSyncInsert(e, f)

ProductRequests ==
    \/ \E c \in Categories \cup {"All"}, f \in Faults : ProductsList(c, f)
    \/ \E id \in PathIds, f \in Faults : ProductGet(id, f)
    \/ \E c \in Callers, b \in ProductBodies, f \in Faults, x \in Express :
           ProductCreate(c, b, f, x)
    \/ \E c \in Callers, id \in PathIds, b \in UpdateBodies, f \in Faults, x \in Express :
           ProductUpdate(c, id, b, f, x)
    \/ \E c \in Callers, id \in PathIds, f \in Faults, x \in Express :
           ProductDelete(c, id, f, x)

OrderRequests ==
    \/ \E c \in Callers, b \in OrderBodies, f \in Faults : OrderCreate(c, b, f)
    \/ \E c \in Callers, f \in Faults : OrdersList(c, f)
    \/ \E c \in Callers, f \in Faults : OrderStats(c, f)
    \/ \E c \in Callers, id \in PathIds, st \in StatusInputs, f \in Faults :
           OrderUpdate(c, id, st, f)
    \/ \E c \in Callers, id \in PathIds, f \in Faults : OrderDelete(c, id, f)
    \/ \E c \in Callers, id \in PathIds, f \in Faults : OrderGet(c, id, f)

WishlistRequests ==
    \/ \E c \in Callers, r \in ProductRefs, f \in Faults : WishlistCheck(c, r, f)
    \/ \E c \in Callers, f \in Faults : WishlistList(c, f)
    \/ \E c \in Callers, r \in ProductRefs, f \in Faults : WishlistAddLookup(c, r, f)
    \/ \E c \in Emails, r \in ProductRefs, f \in Faults : WishlistAddInsert(c, r, f)
    \/ \E c \in Callers, id \in PathIds, f \in Faults : WishlistDelete(c, id, f)
    \/ \E c \in Callers, id \in PathIds, n \in NoteInputs, f \in Faults :
           WishlistUpdate(c, id, n, f)
    \/ \E c \in Callers, r \in ProductRefs, f \in Faults : WishlistDeleteByProduct(c, r, f)

Next ==
    Root \/ Tick \/ UserRequests \/ ProductRequests \/ OrderRequests \/ WishlistRequests
Spec == Init /\ [][Next]_vars

\* A handler reads and writes its own collection and reads users, and nothing
\* else: the specifications below let the clients call one part of the API,
\* the other collections staying as Init leaves them.

\* Clients of the catalogue.
NextCatalogue == UserRequests \/ ProductRequests
SpecCatalogue == Init /\ [][NextCatalogue]_vars

\* Clients that sync their user record and use the order routes.
NextOrders == UserRequests \/ OrderRequests
SpecOrders == Init /\ [][NextOrders]_vars

\* Clients of the admin-only routes: the catalogue and the orders.  The
\* datastore answers the calls of these routes (a request with a failed call
\* leaves the datastore as it was).
NextAdmin ==
    \/ UserRequests
    \/ \E c \in Callers, b \in OrderBodies : OrderCreate(c, b, "none")
    \/ \E c \in Callers : OrdersList(c, "none")
    \/ \E c \in Callers : OrderStats(c, "none")
    \/ \E c \in Callers, id \in PathIds, st \in StatusInputs :
           OrderUpdate(c, id, st, "none")
    \/ \E c \in Callers, id \in PathIds : OrderDelete(c, id, "none")
    \/ \E c \in Callers, b \in ProductBodies, x \in Express :
           ProductCreate(c, b, "none", x)
    \/ \E c \in Callers, id \in PathIds, b \in UpdateBodies, x \in Express :
           ProductUpdate(c, id, b, "none", x)
    \/ \E c \in Callers, id \in PathIds, x \in Express :
           ProductDelete(c, id, "none", x)
SpecAdmin == Init /\ [][NextAdmin]_vars

\* Clients of the wishlist.
NextWishlist == WishlistRequests
SpecWishlist == Init /\ [][NextWishlist]_vars

\* Clients that place orders as time passes, and the admin who reads the
\* statistics and deletes orders.
NextStats ==
    \/ Tick
    \/ \E c \in Emails, b \in StatsBodies : OrderCreate(c, b, "none")
    \/ \E f \in Faults : OrderStats(AdminEmail, f)
    \/ \E id \in PathIds : OrderDelete(AdminEmail, id, "none")
SpecStats == Init /\ [][NextStats]_vars

\* The process from its start: the startup, then clients that sync their
\* user record as time passes.  The event loop runs every continuation that
\* is ready and fires every timer that is due.
Startup == Connect \/ CheckCollections \/ RetryDelay
NextBoot == Startup \/ Flap \/ Tick \/ UserRequests
SpecBoot ==
    /\ InitBoot
    /\ [][NextBoot]_vars
    /\ WF_vars(Connect) /\ WF_vars(CheckCollections) /\ WF_vars(RetryDelay)

---------------------------------------------------------------------------
\* Claims

NonAdmins == {c \in Emails : NotAdmin(DB, c)}

\* The request was refused with 403 and left the datastore as it was.
Denied(r) == r.status = 403 /\ r.db = DB

\* C1: on every admin-only route (product create, update, delete; order
\* list, statistics, update-status, delete) an authenticated caller whose user
\* record is missing or has a role other than admin gets 403, and the
\* datastore (products and orders included) is left as it was.
C1_AdminOnlyRoutes ==
    \A c \in NonAdmins, x \in Express :
        /\ \A b \in ProductBodies : Denied(productCreate(DB, c, b, "none", x))
        /\ \A id \in PathIds, b \in UpdateBodies :
               Denied(productUpdate(DB, c, id, b, "none", x))
        /\ \A id \in PathIds : Denied(productDelete(DB, c, id, "none", x))
        /\ Denied(ordersList(DB, c, "none"))
        /\ Denied(orderStats(DB, c, "none"))
        /\ \A id \in PathIds, st \in StatusInputs :
               Denied(orderUpdate(DB, c, id, st, "none"))
        /\ \A id \in PathIds : Denied(orderDelete(DB, c, id, "none"))

\* A caller whose stored role is 'user' is refused the delete of a product
\* that exists, and the list of all orders.
C1_Witness ==
    \E u \in users, p \in products :
        /\ u.role = "user"
        /\ Denied(productDelete(DB, u.email, Hex(p._id), "none", 4))
        /\ Denied(ordersList(DB, u.email, "none"))

\* C2: order get-by-id answers an authenticated caller who is not an admin
\* with 403 and never with the order document, for every existing order.
C2_OrderGetAdminOnly ==
    \A c \in NonAdmins, o \in orders :
        LET r == orderGet(DB, c, Hex(o._id), "none")
        IN r.status = 403 /\ ~(r.status = 200 /\ r.body = o)

\* The caller's wishlist entries for a product reference.
Entries(wl, c, p) == {w \in wl : w.userEmail = c /\ w.productId = p}

\* C3: when an owner adds the same product reference twice, the second
\* request starting after the first has completed, the first returns 201 and
\* inserts one entry, the second returns 400 and inserts nothing, and exactly
\* one entry for that (owner, product) pair exists afterwards.
C3_SecondAddIsDuplicate ==
    \A c \in Emails, p \in ProductRefs :
        Entries(wishlist, c, p) = {} =>
            LET r1 == wishlistAdd(DB, c, p, "none")
                r2 == wishlistAdd(r1.db, c, p, "none")
            IN  /\ r1.status = 201
                /\ r1.body \notin wishlist
                /\ r1.db.wishlist = wishlist \cup {r1.body}
                /\ r2.status = 400
                /\ r2.db = r1.db
                /\ Cardinality(Entries(r2.db.wishlist, c, p)) = 1

\* An entry that an add has inserted is alone for its pair, and the add
\* repeated now is refused with 400.
C3_Witness ==
    \E w \in wishlist :
        /\ Entries(wishlist, w.userEmail, w.productId) = {w}
        /\ wishlistAdd(DB, w.userEmail, w.productId, "none").status = 400

\* C4: after a successful add of a product reference by an owner (every
\* entry in the collection was created by one), check for the same owner and
\* reference returns exists = true with the id of the entry the add created,
\* whatever the format of the reference; and check returns exists = false when
\* the owner has no entry for it.
C4_AddCheckRoundTrip ==
    /\ \A w \in wishlist :
           LET k == wishlistCheck(DB, w.userEmail, w.productId, "none")
           IN  /\ k.status = 200
               /\ k.body.exists
               /\ Entries(wishlist, w.userEmail, w.productId) = {w} =>
                      k.body.itemId = w._id
    /\ \A c \in Emails, p \in ProductRefs :
           Entries(wishlist, c, p) = {} =>
               ~wishlistCheck(DB, c, p, "none").body.exists

\* C5: wishlist delete, by entry id and by product reference, aimed at an
\* entry that exists but belongs to another owner answers 404 and leaves
\* that entry (and the whole collection) as it was.
C5_DeleteScopedToOwner ==
    \A c \in Emails, w \in wishlist :
        w.userEmail # c =>
            /\ LET r == wishlistDelete(DB, c, Hex(w._id), "none")
               IN r.status = 404 /\ r.db = DB
            /\ LET r == wishlistDeleteByProduct(DB, c, w.productId, "none")
               IN /\ w \in r.db.wishlist
                  /\ Entries(wishlist, c, w.productId) = {} =>
                         (r.status = 404 /\ r.db = DB)

\* An entry of one owner, which another authenticated caller, who has no
\* entry for that product, fails to delete either way.
C5_Witness ==
    \E c \in Emails, w \in wishlist :
        /\ w.userEmail # c
        /\ Entries(wishlist, c, w.productId) = {}
        /\ wishlistDelete(DB, c, Hex(w._id), "none").status = 404
        /\ wishlistDeleteByProduct(DB, c, w.productId, "none").status = 404

UsersOf(us, e) == {u \in us : u.email = e}

\* C6: user sync called twice in sequence with the same email, from a store
\* with no user for it, leaves exactly one user document for the email and
\* answers both times with role 'user'; called on a store that holds the one
\* document, it answers with that document and writes nothing.
C6_SyncIdempotent ==
    \A e \in Emails :
        /\ UsersOf(users, e) = {} =>
               LET r1 == usersSync(DB, e, "none")
                   r2 == usersSync(r1.db, e, "none")
               IN  /\ r1.status = 200 /\ r2.status = 200
                   /\ r1.body.role = "user" /\ r2.body.role = "user"
                   /\ r2.body = r1.body
                   /\ UsersOf(r2.db.users, e) = {r1.body}
        /\ \A u \in users :
               UsersOf(users, e) = {u} =>
                   LET r == usersSync(DB, e, "none")
                   IN r.status = 200 /\ r.body = u /\ r.db = DB

\* The one document a first sync created, which a second sync returns.
C6_Witness ==
    \E u \in users :
        /\ u.role = "user"
        /\ UsersOf(users, u.email) = {u}
        /\ usersSync(DB, u.email, "none").body = u

\* C7: in every reachable state, concurrent syncs of one email included, the
\* users collection holds at most one document per email.
C7_EmailUnique ==
    \A e \in Emails : Cardinality(UsersOf(users, e)) <= 1

\* The request was rejected as invalid input, the datastore left as it was.
InvalidInput(r) == r.status = 400 /\ r.db = DB

\* A path parameter that is not in the document-identifier format.
Malformed == {id \in PathIds : ObjectIdThrows(id)}

Admins == Emails \ NonAdmins

\* C8: every route that takes a document identifier as a path parameter
\* (product get, update, delete; order get, update-status, delete; wishlist
\* update and delete by entry id) rejects a malformed identifier with status
\* 400, not 404 or 500, and changes nothing in the datastore.
C8_MalformedIdIs400 ==
    \A id \in Malformed :
        /\ InvalidInput(productGet(DB, id, "none"))
        /\ \A c \in Admins, x \in Express :
               /\ \A b \in UpdateBodies :
                      InvalidInput(productUpdate(DB, c, id, b, "none", x))
               /\ InvalidInput(productDelete(DB, c, id, "none", x))
               /\ \A st \in StatusInputs :
                      InvalidInput(orderUpdate(DB, c, id, st, "none"))
               /\ InvalidInput(orderDelete(DB, c, id, "none"))
        /\ \A c \in Emails :
               /\ InvalidInput(orderGet(DB, c, id, "none"))
               /\ \A n \in NoteInputs :
                      InvalidInput(wishlistUpdate(DB, c, id, n, "none"))
               /\ InvalidInput(wishlistDelete(DB, c, id, "none"))

\* The request ended with an error response of the route's own code.
Handled(r) == r.sentBy = "handler" /\ r.status \in 400..599

\* C9: on every route, when a datastore call of the request fails (the role
\* lookup of the admin gate included), the request ends with one response of
\* status 4xx/5xx and a { message } body sent by the application: the failure
\* never escapes to the transport layer.
C9_NoFailureEscapes ==
    /\ \A e \in Emails :
           /\ Handled(usersSync(DB, e, "query"))
           /\ Handled(usersSyncInsert(DB, e, "query"))
    /\ \A c \in Categories \cup {"All"} : Handled(productsList(DB, c, "query"))
    /\ \A id \in PathIds : Handled(productGet(DB, id, "query"))
    /\ \A c \in Callers :
           /\ \A f \in {"gate", "query"}, x \in Express :
                  /\ \A b \in ProductBodies : Handled(productCreate(DB, c, b, f, x))
                  /\ \A id \in PathIds, b \in UpdateBodies :
                         Handled(productUpdate(DB, c, id, b, f, x))
                  /\ \A id \in PathIds : Handled(productDelete(DB, c, id, f, x))
           /\ \A f \in {"gate", "query"} :
                  /\ Handled(ordersList(DB, c, f))
                  /\ Handled(orderStats(DB, c, f))
                  /\ \A id \in PathIds, st \in StatusInputs :
                         Handled(orderUpdate(DB, c, id, st, f))
                  /\ \A id \in PathIds : Handled(orderDelete(DB, c, id, f))
           /\ \A b \in OrderBodies : Handled(orderCreate(DB, c, b, "query"))
           /\ \A id \in PathIds :
                  /\ Handled(orderGet(DB, c, id, "query"))
                  /\ Handled(wishlistDelete(DB, c, id, "query"))
                  /\ \A n \in NoteInputs : Handled(wishlistUpdate(DB, c, id, n, "query"))
           /\ Handled(wishlistList(DB, c, "query"))
           /\ \A p \in ProductRefs :
                  /\ Handled(wishlistCheck(DB, c, p, "query"))
                  /\ Handled(wishlistAdd(DB, c, p, "query"))
                  /\ Handled(wishlistAddInsert(DB, c, p, "query"))
                  /\ Handled(wishlistDeleteByProduct(DB, c, p, "query"))

\* The request body carries a numeric price: a number or a numeric string.
NumericPrice(b) == b.price.t \in {"number", "numeric-string"}
AllPresent(b) == b.name # Undefined /\ NumericPrice(b) /\ b.category # Undefined
OneAbsent(b) ==
    b.name = Undefined \/ b.price.t = "undefined" \/ b.category = Undefined

\* C10: a product create by an admin with name, price and category present
\* (any numeric price, 0 included, as a number or a numeric string) answers
\* 201, and get-by-id with the returned id right afterwards returns the same
\* name and category and the price as a number; with one of the three fields
\* absent, create answers 400 and inserts nothing.
C10_CreateThenGet ==
    \A c \in Admins, b \in ProductBodies, x \in Express :
        LET r == productCreate(DB, c, b, "none", x)
            g == productGet(r.db, Hex(r.body._id), "none")
        IN  /\ AllPresent(b) =>
                /\ r.status = 201
                /\ g.status = 200
                /\ g.body.name = b.name
                /\ g.body.category = b.category
                /\ g.body.price = Num(b.price.v)
            /\ OneAbsent(b) => InvalidInput(r)

\* C11: in every reachable state, after any sequence of product creates and
\* updates by an admin with any price input (number, numeric string, other
\* string, null, or no price field on update), every stored product has a
\* price that is a number: not a string, null, missing, or NaN.
C11_PriceNumericAtRest ==
    \A p \in products : p.price.t = "number"

\* Order create by an authenticated caller answers 201 and inserts one order,
\* owned by the caller whatever owner field the body carries.
OwnerStamped ==
    \A c \in Emails, b \in OrderBodies :
        LET r == orderCreate(DB, c, b, "none")
            created == r.db.orders \ orders
        IN  /\ r.status = 201
            /\ Cardinality(created) = 1
            /\ \A o \in created : o._id = r.body.id /\ o.userEmail = c

\* A step leaves every order that it keeps with the owner it had.
OwnerKept ==
    \A o \in orders, q \in orders' : q._id = o._id => q.userEmail = o.userEmail

\* C12: order create stores the caller's verified email as the owner, also
\* when the body supplies an owner email of its own, and no request (status
\* update, other creates, deletes) changes the owner of an existing order.
C12_OwnerImmutable == []OwnerStamped /\ [][OwnerKept]_vars

\* An order a non-admin created and the admin then updated: it is still the
\* creator's, next to a second order.
C12_Witness ==
    \E o \in orders, q \in orders :
        /\ o._id # q._id
        /\ o.userEmail = "bob@shop"
        /\ o.status = "shipped"

\* The emails that have a user document with role 'admin'.
AdminEmails(us) == {u.email : u \in {y \in us : y.role = "admin"}}

\* Sync of an email that has a user document returns a stored document of
\* that email, with the role it is stored with, and writes nothing; sync of
\* an email that has none creates a user with role 'user'.
SyncKeepsRoles ==
    \A e \in Emails :
        LET r == usersSync(DB, e, "none")
        IN  IF UsersOf(users, e) # {}
            THEN r.status = 200 /\ r.body \in UsersOf(users, e) /\ r.db = DB
            ELSE /\ r.status = 200 /\ r.body.role = "user"
                 /\ r.db.users = users \cup {r.body}

\* A step changes no user document's role, and the admins stay who they are.
RolesKept ==
    /\ \A u \in users, v \in users' : v._id = u._id => v.role = u.role
    /\ AdminEmails(users') = AdminEmails(users)

\* C13: user roles are never changed through the API: sync of an existing
\* email returns the stored document and role (admin stays admin, user stays
\* user) and writes nothing, a user that sync creates has role 'user', and
\* the set of admin emails is the same after every request as before it.
C13_RolesNeverChange == []SyncKeepsRoles /\ [][RolesKept]_vars

\* A user that sync created next to the admin: sync answers the admin's
\* email with role 'admin' and the user's with role 'user'.
C13_Witness ==
    \E u \in users :
        /\ u.role = "user"
        /\ usersSync(DB, u.email, "none").body.role = "user"
        /\ usersSync(DB, AdminEmail, "none").body.role = "admin"
        /\ AdminEmails(users) = {AdminEmail}

\* C14: order statistics requested by an admin while the orders collection
\* is empty returns totalOrders 0, totalRevenue 0, the six statuses pending,
\* confirmed, processing, shipped, delivered, cancelled each with count 0,
\* and an empty monthlyStats list.
C14_StatsOnNoOrders ==
    orders = {} =>
        \A c \in Admins :
            LET r == orderStats(DB, c, "none")
            IN  /\ r.status = 200
                /\ r.body.totalOrders = 0
                /\ r.body.totalRevenue = 0
                /\ r.body.ordersByStatus =
                       <<[status |-> "pending", count |-> 0],
                         [status |-> "confirmed", count |-> 0],
                         [status |-> "processing", count |-> 0],
                         [status |-> "shipped", count |-> 0],
                         [status |-> "delivered", count |-> 0],
                         [status |-> "cancelled", count |-> 0]>>
                /\ r.body.monthlyStats = << >>

\* The orders collection is empty, a user has synced, and the admin's
\* statistics request is answered.
C14_Witness ==
    /\ orders = {}
    /\ \E u \in users : u.role = "user"
    /\ Admins # {}
    /\ orderStats(DB, AdminEmail, "none").status = 200

\* The stored orders created in a calendar month.
OrdersIn(m) == {o \in orders : MonthOf(o.createdAt) = m}

\* The calendar months that the trailing six months reach into.
TrailingMonths == {MonthOf(t) : t \in sixMonthsAgo..now}

\* A calendar month as a number that grows with time.
MonthIndex(m) == m.year * 12 + m.month

\* C15: for stored orders with numeric totals, order statistics reports
\* totalOrders as the number of orders and totalRevenue as the sum of their
\* totals; for each year-month within the trailing six months that has an
\* order, monthlyStats has exactly one entry, whose count is the number of
\* orders created in that month and whose revenue is the sum of their totals;
\* and the entries are in ascending chronological order.
C15_StatsSums ==
    \A c \in Admins :
        LET r == orderStats(DB, c, "none")
            ms == r.body.monthlyStats
        IN  /\ r.status = 200
            /\ r.body.totalOrders = Cardinality(orders)
            /\ r.body.totalRevenue = SumTotals(orders)
            /\ \A m \in TrailingMonths :
                   OrdersIn(m) # {} =>
                       /\ Cardinality({i \in DOMAIN ms : ms[i].month = m}) = 1
                       /\ \A i \in DOMAIN ms :
                              ms[i].month = m =>
                                  /\ ms[i].count = Cardinality(OrdersIn(m))
                                  /\ ms[i].revenue = SumTotals(OrdersIn(m))
            /\ \A i, j \in DOMAIN ms :
                   i < j => MonthIndex(ms[i].month) < MonthIndex(ms[j].month)

\* C16: wishlist add is a check-then-insert that is not atomic: when two add
\* requests of one caller for one product reference have both passed the
\* duplicate check before either has inserted, both inserts answer 201 and
\* two entries with the same (owner, product) pair exist afterwards.
C16_AddRace ==
    \A c \in Emails, p \in ProductRefs :
        CopiesIn(Waiting("wishlistAdd", c, p), inflight) >= 2 =>
            LET r1 == wishlistAddInsert(DB, c, p, "none")
                r2 == wishlistAddInsert(r1.db, c, p, "none")
            IN  /\ r1.status = 201
                /\ r2.status = 201
                /\ r1.body # r2.body
                /\ {r1.body, r2.body} \subseteq Entries(r2.db.wishlist, c, p)

\* The interleaving has happened: two entries of one owner for one product
\* reference are in the collection.
C16_Witness ==
    \E c \in Emails, p \in ProductRefs :
        /\ Cardinality(Entries(wishlist, c, p)) = 2
        /\ inflight = EmptyBag

\* The server listens only with the database handle set.
ListensWithHandle == pc = "listening" => dbHandle

\* A step that starts the listening is the end of a successful connection
\* attempt; a step that changes the datastore or takes a request in is taken
\* while listening with the handle; a step from the retry delay starts the
\* next attempt, however many have failed.
StartupOrder ==
    /\ (pc # "listening" /\ pc' = "listening") =>
           (pc = "check" /\ reachable /\ dbHandle')
    /\ <<users, products, orders, wishlist, nextId, inflight>>' #
           <<users, products, orders, wishlist, nextId, inflight>> =>
           (pc = "listening" /\ dbHandle)
    /\ (pc = "delay" /\ pc' # pc) => pc' = "connect"
    /\ (pc \in {"connect", "check"} /\ pc' # pc /\ ~reachable) => pc' = "delay"

\* C17: the server registers its routes and listens only after a connection
\* attempt (connect and the collection check) has succeeded; every failed
\* attempt is followed, after the delay, by another attempt, without a bound
\* on their number; no request is served without a database handle; and if
\* the datastore eventually is and stays reachable, the server eventually
\* listens.
C17_StartupRetry ==
    /\ []ListensWithHandle
    /\ [][StartupOrder]_vars
    /\ (pc = "delay") ~> (pc = "connect")
    /\ (<>[]reachable) => <>(pc = "listening")

\* The server listens and has served a request after as many failed
\* attempts as are counted.
C17_Witness ==
    /\ pc = "listening"
    /\ dbHandle
    /\ failures = MaxAttempts
    /\ \E u \in users : u.role = "user"

RECURSIVE SumCounts(_)
\* The sum of the counts of a status distribution.
SumCounts(dist) ==
    IF dist = << >> THEN 0 ELSE Head(dist).count + SumCounts(Tail(dist))

\* The stored orders whose status is one of the six.
InEnum ==
    {o \in orders : o.status \in {"pending", "confirmed", "processing",
                                  "shipped", "delivered", "cancelled"}}

\* C18: in every order-statistics response (no order write running in
\* between) the six status counts sum to at most totalOrders, with equality
\* exactly when every stored order has one of the six statuses: an order
\* with no status (create sets none) or with an out-of-enum status stored by
\* update-status is counted in totalOrders and in none of the six buckets.
C18_StatusCountsSum ==
    \A c \in Admins :
        LET r == orderStats(DB, c, "none")
            counted == SumCounts(r.body.ordersByStatus)
        IN  /\ r.status = 200
            /\ r.body.totalOrders = Cardinality(orders)
            /\ counted <= r.body.totalOrders
            /\ (counted = r.body.totalOrders) <=> (InEnum = orders)
            /\ counted = Cardinality(InEnum)
            /\ \A o \in orders \ InEnum, i \in DOMAIN r.body.ordersByStatus :
                   LET bucket == r.body.ordersByStatus[i]
                   IN  bucket.count =
                           Cardinality({q \in orders \ {o} : q.status = bucket.status})

\* An order created without a status, an order that update-status gave an
\* out-of-enum status: the statistics count two orders and none in a bucket.
C18_Witness ==
    \E o \in orders, q \in orders :
        /\ o.status = Undefined
        /\ q.status = "bogus"
        /\ orderStats(DB, AdminEmail, "none").body.totalOrders = 2
        /\ SumCounts(orderStats(DB, AdminEmail, "none").body.ordersByStatus) = 0

====
